---- MODULE Spec2Model ----
(***************************************************************************)
(* QUnfoldQUBO (src/src/QUnfold/core/QUnfoldQUBO.py): unfolding as a QUBO.  *)
(*                                                                         *)
(* Arithmetic is exact.  A real number is a pair numerator/denominator; a  *)
(* matrix is a sequence of rows, each row [num |-> <<ints>>, den |-> k]    *)
(* standing for the reals num[j]/den, kept in lowest terms with den > 0,   *)
(* so that two rows are equal as records exactly when they are equal as    *)
(* real vectors.  Arrays are float arrays (the dtype the studies pass).    *)
(***************************************************************************)
EXTENDS Integers, Sequences, FiniteSets, TLC

VARIABLES
    response,   \* contents of the caller's response array (the object passed in)
    Rref,       \* which array object self.R references: "caller" or "own"
    Rown,       \* contents of the array allocated by _normalize, if any
    d,          \* self.d
    lam,        \* self.lam, a rational [num, den]
    pc,         \* "new" before __init__ has run, "ready" after
    built,      \* history: R, d, lam as they were when __init__ returned
    last,       \* the last call on the object and how it ended
    calls,      \* history: the solve calls made on the object, in order
    memo,       \* the seeded sampler's draws so far: (key, sample set) pairs
    seeded,     \* history: the first seeded call that returned, and its vector
    norm2       \* direct calls of _normalize, starting from self.R

vars == <<response, Rref, Rown, d, lam, pc, built, last, calls, memo, seeded, norm2>>

None == "None"

----------------------------------------------------------------------------
(* Integer helpers *)

Abs(x) == IF x < 0 THEN -x ELSE x

Sgn(x) == IF x < 0 THEN -1 ELSE IF x = 0 THEN 0 ELSE 1

\* F(v), with v evaluated once.
Bind(v, F(_)) == CHOOSE r \in {F(x) : x \in {v}} : TRUE

RECURSIVE GCD(_, _)
GCD(a, b) == IF b = 0 THEN Abs(a) ELSE GCD(b, a % Abs(b))

RECURSIVE SumSeq(_)
SumSeq(s) == IF s = <<>> THEN 0 ELSE Head(s) + SumSeq(Tail(s))

RECURSIVE GcdSeq(_)
GcdSeq(s) == IF s = <<>> THEN 0 ELSE GCD(Head(s), GcdSeq(Tail(s)))

RECURSIVE Pow2(_)
Pow2(k) == IF k <= 0 THEN 1 ELSE 2 * Pow2(k - 1)

RECURSIVE FloorLog2(_)
FloorLog2(x) == IF x <= 1 THEN 0 ELSE 1 + FloorLog2(x \div 2)

\* The row nums[j]/den in lowest terms with a positive denominator (den # 0).
CanonRow(nums, den) ==
    LET g == GCD(GcdSeq(nums), den)
        s == Sgn(den)
    IN  [num |-> [j \in DOMAIN nums |-> (s * nums[j]) \div g],
         den |-> (s * den) \div g]

\* A float array given by integer rows over one denominator.
Matrix(rows, den) == [i \in DOMAIN rows |-> CanonRow(rows[i], den)]

NRows(M) == Len(M)
NCols(M) == Len(M[1].num)

----------------------------------------------------------------------------
(* Response normalizer *)

\* numpy.allclose's default tolerances: |a - b| <= atol + rtol * |b| with
\* rtol = 1e-5 and atol = 1e-8; against b = 1 the bound is 1001e-8.
AllcloseTolNum == 1001
AllcloseTolDen == 100000000

\* np.sum(matrix, axis=1)[i] as numerator over the row's denominator.
RowSum(row) == SumSeq(row.num)

\* np.allclose(s, 1) for the sum s of one row: |s - 1| <= atol + rtol.
AllcloseOne(row) ==
    Abs(RowSum(row) - row.den) <= (AllcloseTolNum * row.den) \div AllcloseTolDen

\* Every row sums to 1 exactly.
RowStochastic(matrix) ==
    \A i \in DOMAIN matrix : RowSum(matrix[i]) = matrix[i].den

\* Mutant of _is_normalized: the sums are compared with ==, not with allclose.
_is_normalized_exact(matrix) == RowStochastic(matrix)

_is_normalized(matrix) ==
    \A i \in DOMAIN matrix : AllcloseOne(matrix[i])

\* Mutant of _normalize: every row is divided, the zero-sum mask is dropped;
\* a zero row divides 0 by 0 and holds nan (here: the marker den = 0).
_normalize_nomask(matrix) ==
    [i \in DOMAIN matrix |->
        IF RowSum(matrix[i]) # 0
        THEN CanonRow(matrix[i].num, RowSum(matrix[i]))
        ELSE [num |-> matrix[i].num, den |-> 0]]

_normalize(matrix) ==
    [i \in DOMAIN matrix |->
        IF RowSum(matrix[i]) # 0
        THEN CanonRow(matrix[i].num, RowSum(matrix[i]))
        ELSE matrix[i]]

----------------------------------------------------------------------------
(* The object *)

\* The array self.R references, as it is now.
R == IF Rref = "caller" THEN response ELSE Rown

NoCall == [op |-> None, num_reads |-> 0, seed |-> -1, trace |-> <<>>,
           kind |-> None, value |-> <<>>, err |-> None, cause |-> None,
           samples |-> <<>>]

NoSeed == -1    \* seed=None

NoSeeded == [set |-> FALSE, key |-> <<>>, value |-> <<>>, at |-> 0]

NoMatrix == [count |-> 0, matrix |-> <<>>, prev |-> <<>>]

Init ==
    /\ response = None
    /\ Rref = None
    /\ Rown = None
    /\ d = <<>>
    /\ lam = [num |-> 0, den |-> 1]
    /\ pc = "new"
    /\ built = None
    /\ last = NoCall
    /\ calls = <<>>
    /\ memo = {}
    /\ seeded = NoSeeded
    /\ norm2 = NoMatrix

\* QUnfoldQUBO(response, meas, lam)
__init__(inp) ==
    /\ pc = "new"
    /\ response' = inp.response
    /\ d' = inp.meas
    /\ lam' = inp.lam
    /\ IF _is_normalized(inp.response)
       THEN Rref' = "caller" /\ Rown' = None
       ELSE Rref' = "own" /\ Rown' = _normalize(inp.response)
    /\ pc' = "ready"
    /\ built' = [input |-> inp.response, Rref |-> Rref', R |-> R',
                  d |-> d', lam |-> lam']
    /\ UNCHANGED <<last, calls, memo, seeded, norm2>>

----------------------------------------------------------------------------
(* Variable encoder *)

\* Mutant of EncoderBound: the logarithm is rounded up (np.ceil for np.floor).
EncoderBoundCeil(dd) ==
    IF SumSeq(dd) >= 1
    THEN (IF Pow2(FloorLog2(SumSeq(dd))) = SumSeq(dd)
          THEN SumSeq(dd) ELSE 2 * Pow2(FloorLog2(SumSeq(dd)))) - 1
    ELSE -1

\* int(2 ** np.floor(np.log2(sum(self.d)))) - 1 for counts d: log2(0) is
\* -inf, 2 ** -inf is 0.0, so an empty histogram gives -1.
EncoderBound(dd) ==
    IF SumSeq(dd) >= 1 THEN Pow2(FloorLog2(SumSeq(dd))) - 1 ELSE -1

\* Mutant of LogEncWeights: the exponents are off by one (2, 4, 8, ...).
LogEncWeightsShifted(n) ==
    [k \in 1..(FloorLog2(n) + 1) |-> Pow2(k)]

\* pyqubo's LogEncInteger over (0, n), n >= 1: floor(log2(n)) + 1 binary
\* sub-variables, weights 1, 2, 4, ... and n - (2^(bits-1) - 1) for the last.
LogEncWeights(n) ==
    LET bits == FloorLog2(n) + 1
    IN  [k \in 1..bits |-> IF k < bits THEN Pow2(k - 1) ELSE n - (Pow2(bits - 1) - 1)]

\* One variable per entry of self.d; LogEncInteger asserts upper > lower.
_define_variables(dd) ==
    LET n == EncoderBound(dd)
    IN  IF n <= 0
        THEN [ok |-> FALSE, err |-> "AssertionError", x |-> <<>>]
        ELSE [ok |-> TRUE, err |-> None,
              x |-> [i \in 1..Len(dd) |->
                        [label |-> i - 1, lower |-> 0, upper |-> n,
                         weights |-> LogEncWeights(n)]]]

----------------------------------------------------------------------------
(* Hamiltonian builder.  Coefficients are kept as integers: every one is    *)
(* multiplied by scale = lam.den * L^2, L the product of R's row            *)
(* denominators, which is positive, so energies compare as the reals do.    *)

RECURSIVE ProdSeq(_)
ProdSeq(s) == IF s = <<>> THEN 1 ELSE Head(s) * ProdSeq(Tail(s))

RowDenProduct(M) == ProdSeq([k \in DOMAIN M |-> M[k].den])

\* L * M[k][i]
Scaled(M, k, i) == M[k].num[i] * (RowDenProduct(M) \div M[k].den)

_get_laplacian(dim) ==
    [i \in 1..dim |-> [j \in 1..dim |->
        IF i = j THEN -2 ELSE IF Abs(i - j) = 1 THEN 1 ELSE 0]]

\* (G.T @ G)[i][j]
GtG(G, i, j) == SumSeq([k \in DOMAIN G |-> G[k][i] * G[k][j]])

\* L * (R.T @ d)[i]
RtD(M, dd, i) == SumSeq([k \in DOMAIN M |-> Scaled(M, k, i) * dd[k]])

\* L^2 * (R.T @ R)[i][j]
RtR(M, i, j) == SumSeq([k \in DOMAIN M |-> Scaled(M, k, i) * Scaled(M, k, j)])

\* numpy broadcasting of an n x n with a dim x dim array: equal, or one is 1 x 1.
Broadcastable(n, dim) == n = dim \/ n = 1 \/ dim = 1

BroadcastIndex(size, i) == IF size = 1 THEN 1 ELSE i

_define_hamiltonian(M, dd, lm, x) ==
    LET dim == Len(x)
        n   == NCols(M)
        L   == RowDenProduct(M)
        G   == _get_laplacian(dim)
    IN  IF NRows(M) # Len(dd)
        THEN [ok |-> FALSE, err |-> "ValueError", line |-> 56]   \* R.T @ d
        ELSE IF dim > n
        THEN [ok |-> FALSE, err |-> "IndexError", line |-> 58]   \* a[i]
        ELSE IF ~Broadcastable(n, dim)
        THEN [ok |-> FALSE, err |-> "ValueError", line |-> 61]   \* R.T @ R + lam * G.T @ G
        ELSE [ok |-> TRUE, err |-> None, line |-> 65,
              scale |-> lm.den * L * L,
              a |-> [i \in 1..dim |-> -2 * RtD(M, dd, i) * L * lm.den],
              B |-> [i \in 1..dim |-> [j \in 1..dim |->
                        lm.den * RtR(M, BroadcastIndex(n, i), BroadcastIndex(n, j))
                        + lm.num * L * L
                            * GtG(G, BroadcastIndex(dim, i), BroadcastIndex(dim, j))]]]

\* The Hamiltonian's value (times its scale) at integer values xs of the variables.
Energy(h, xs) ==
    SumSeq([i \in DOMAIN xs |-> h.a[i] * xs[i]])
    + SumSeq([i \in DOMAIN xs |->
                SumSeq([j \in DOMAIN xs |-> h.B[i][j] * xs[i] * xs[j]])])

_define_pyqubo_model(M, dd, lm) ==
    LET enc == _define_variables(dd)
        h   == _define_hamiltonian(M, dd, lm, enc.x)
    IN  IF ~enc.ok
        THEN [ok |-> FALSE, err |-> enc.err, cause |-> "encode",
              trace |-> <<"_define_variables">>]
        ELSE IF ~h.ok
        THEN [ok |-> FALSE, err |-> h.err, cause |-> "hamiltonian",
              trace |-> <<"_define_variables", "_define_hamiltonian">>]
        ELSE [ok |-> TRUE, err |-> None, cause |-> None,
              trace |-> <<"_define_variables", "_define_hamiltonian", "compile">>,
              labels |-> [i \in DOMAIN enc.x |-> enc.x[i].label],
              x |-> enc.x, h |-> h]

----------------------------------------------------------------------------
(* The samplers: opaque oracles.  A sample assigns a bit to every binary    *)
(* sub-variable: sample[i][k] is bit k of variable i.                       *)

MaxSamples == 2     \* most samples a sample set holds
MaxReads == 2       \* largest num_reads a caller passes
PoolBits == 4       \* models of more binary variables are sampled at saturated values only

NumReads == 0..MaxReads

\* Classes of exception a sampler raises; the core neither catches nor wraps them.
SamplerErrors == {"ValueError", "ConnectionError"}

TotalBits(x) == SumSeq([i \in DOMAIN x |-> Len(x[i].weights)])

AllSamples(x) ==
    {s \in [DOMAIN x -> UNION {[1..Len(x[i].weights) -> {0, 1}] : i \in DOMAIN x}] :
        \A i \in DOMAIN x : Len(s[i]) = Len(x[i].weights)}

\* Every sub-variable of one variable alike: the variable is 0 or at its upper bound.
Saturated(s) == \A i \in DOMAIN s : \A k \in DOMAIN s[i] : s[i][k] = s[i][1]

SamplePool(x) ==
    IF TotalBits(x) <= PoolBits THEN AllSamples(x)
    ELSE {s \in AllSamples(x) : Saturated(s)}

SampleSets(x, most) ==
    UNION {[1..k -> SamplePool(x)] : k \in 0..(IF most < MaxSamples THEN most ELSE MaxSamples)}

\* What a sampler call comes back with: it raises, or returns a sample set.
SamplerResponses(x, most) ==
    {[raised |-> TRUE, err |-> e, samples |-> <<>>] : e \in SamplerErrors}
    \cup {[raised |-> FALSE, err |-> None, samples |-> ss] : ss \in SampleSets(x, most)}

----------------------------------------------------------------------------
(* Decoding *)

\* Value of one logarithmically encoded variable: the weighted sum of its bits.
DecodeVar(v, bits) == SumSeq([k \in DOMAIN bits |-> v.weights[k] * bits[k]])

\* model.decode_sampleset: each sample's integer values and its energy.
DecodeSample(model, s) ==
    LET xs == [i \in DOMAIN model.x |-> DecodeVar(model.x[i], s[i])]
    IN  [subh |-> xs, energy |-> Energy(model.h, xs)]

decode_sampleset(model, samples) ==
    [k \in DOMAIN samples |-> DecodeSample(model, samples[k])]

\* Mutant of BestIndex: the last of the minimum-energy samples.
BestIndexLast(decoded) ==
    CHOOSE k \in DOMAIN decoded :
        /\ \A l \in DOMAIN decoded : decoded[k].energy <= decoded[l].energy
        /\ \A l \in DOMAIN decoded : l > k => decoded[l].energy > decoded[k].energy

\* min(decoded_sampleset, key=lambda s: s.energy): the first minimum met.
BestIndex(decoded) ==
    CHOOSE k \in DOMAIN decoded :
        /\ \A l \in DOMAIN decoded : decoded[k].energy <= decoded[l].energy
        /\ \A l \in DOMAIN decoded : l < k => decoded[l].energy > decoded[k].energy

\* Lines 78-80 and 86-88: decode, take the best, read one value per label.
Decode(model, samples) ==
    IF samples = <<>>
    THEN [kind |-> "raise", err |-> "ValueError", cause |-> "empty", value |-> <<>>]
    ELSE Bind(decode_sampleset(model, samples), LAMBDA decoded :
         Bind(decoded[BestIndex(decoded)], LAMBDA best_sample :
            [kind |-> "return", err |-> None, cause |-> None,
             value |-> [i \in DOMAIN model.labels |->
                            best_sample.subh[model.labels[i] + 1]]]))

----------------------------------------------------------------------------
(* Solver dispatcher *)

MaxSeed == 1        \* seeds a caller passes are 1..MaxSeed
MaxCalls == 2       \* solve calls made on one object

Seeds == 1..MaxSeed

\* Line 77 hands the caller's seed on to the sampler.
\* Mutant of SeedPassed: the seed is dropped on the way to the sampler.
SeedDropped(seed) == NoSeed

SeedPassed(seed) == seed

\* What the seeded sampler's draw depends on: the model sampled and the arguments.
DrawKey(num_reads, seed) == <<R, d, lam, num_reads, seed>>

\* SimulatedAnnealingSampler().sample(bqm, num_reads=, seed=): it rejects
\* num_reads < 1 with a ValueError; with a seed its draw is a function of its
\* arguments; it may fail otherwise as any call can.
SimulatedAnnealingSampler(x, num_reads, seed) ==
    IF num_reads < 1
    THEN {[raised |-> TRUE, err |-> "ValueError", samples |-> <<>>]}
    ELSE IF seed # NoSeed /\ \E e \in memo : e.key = DrawKey(num_reads, seed)
    THEN {[raised |-> FALSE, err |-> None, samples |-> e.samples] :
            e \in {e \in memo : e.key = DrawKey(num_reads, seed)}}
         \cup {[raised |-> TRUE, err |-> e, samples |-> <<>>] : e \in SamplerErrors}
    ELSE SamplerResponses(x, num_reads)

\* LeapHybridSampler().sample(bqm): no read count, no seed.
LeapHybridSampler(x) == SamplerResponses(x, MaxSamples)

\* The record of a call that raised before the sampler was reached.
BuildFailed(op, num_reads, seed, model) ==
    [op |-> op, num_reads |-> num_reads, seed |-> seed, trace |-> model.trace,
     kind |-> "raise", value |-> <<>>, err |-> model.err, cause |-> model.cause,
     samples |-> <<>>]

\* The record of a call whose sampler came back with resp.
Sampled(op, num_reads, seed, model, resp) ==
    IF resp.raised
    THEN [op |-> op, num_reads |-> num_reads, seed |-> seed,
          trace |-> model.trace \o <<"sample">>,
          kind |-> "raise", value |-> <<>>, err |-> resp.err, cause |-> "sampler",
          samples |-> <<>>]
    ELSE Bind(Decode(model, resp.samples), LAMBDA out :
             [op |-> op, num_reads |-> num_reads, seed |-> seed,
              trace |-> model.trace \o <<"sample", "decode">>,
              kind |-> out.kind, value |-> out.value, err |-> out.err,
              cause |-> out.cause, samples |-> resp.samples])

\* Mutant of SolveFrame: the solve clips self.d to the encoder's range in place.
SolveFrameStores ==
    /\ d' = [i \in DOMAIN d |->
                IF d[i] > EncoderBound(d) /\ EncoderBound(d) >= 0
                THEN EncoderBound(d) ELSE d[i]]
    /\ UNCHANGED <<response, Rref, Rown, lam, pc, built, norm2>>

\* Neither solve method assigns an attribute of self or writes into an array.
SolveFrame == UNCHANGED <<response, Rref, Rown, d, lam, pc, built, norm2>>

solve_simulated_annealing(num_reads, seed) ==
    /\ pc = "ready"
    /\ last.op = None
    /\ Len(calls) < MaxCalls
    /\ \E model \in {_define_pyqubo_model(R, d, lam)} :
           IF ~model.ok
           THEN /\ last' = BuildFailed("SA", num_reads, seed, model)
                /\ UNCHANGED <<memo, seeded>>
           ELSE \E resp \in SimulatedAnnealingSampler(model.x, num_reads, SeedPassed(seed)) :
                /\ last' = Sampled("SA", num_reads, seed, model, resp)
                /\ memo' = IF SeedPassed(seed) # NoSeed /\ ~resp.raised
                           THEN memo \cup {[key |-> DrawKey(num_reads, SeedPassed(seed)),
                                            samples |-> resp.samples]}
                           ELSE memo
                /\ seeded' = IF seed # NoSeed /\ ~seeded.set /\ last'.kind = "return"
                             THEN [set |-> TRUE, key |-> DrawKey(num_reads, seed),
                                   value |-> last'.value, at |-> Len(calls) + 1]
                             ELSE seeded
    /\ calls' = Append(calls, "SA")
    /\ SolveFrame

solve_hybrid_sampler ==
    /\ pc = "ready"
    /\ last.op = None
    /\ Len(calls) < MaxCalls
    /\ \E model \in {_define_pyqubo_model(R, d, lam)} :
           IF ~model.ok
           THEN last' = BuildFailed("HYB", 0, NoSeed, model)
           ELSE \E resp \in LeapHybridSampler(model.x) :
                    last' = Sampled("HYB", 0, NoSeed, model, resp)
    /\ calls' = Append(calls, "HYB")
    /\ UNCHANGED <<memo, seeded>>
    /\ SolveFrame

\* The caller writes v into its own array at [0, 0], after construction.
CallerWrites(v) ==
    /\ pc = "ready"
    /\ last.op = None
    /\ response' = [response EXCEPT ![1] =
                        CanonRow([j \in DOMAIN response[1].num |->
                                     IF j = 1 THEN v * response[1].den
                                     ELSE response[1].num[j]],
                                 response[1].den)]
    /\ response' # response
    /\ UNCHANGED <<Rref, Rown, d, lam, pc, built, last, calls, memo, seeded, norm2>>

\* The call is synchronous: the caller has the vector, or the exception, before
\* it does anything else with the object.
CallerResumes ==
    /\ last.op # None
    /\ last' = NoCall
    /\ UNCHANGED <<response, Rref, Rown, d, lam, pc, built, calls, memo, seeded, norm2>>

MaxNormalize == 2   \* direct calls of _normalize in a row

\* QUnfoldQUBO._normalize (a static method) called directly: first on self.R,
\* then on what the call before returned.
Renormalize ==
    /\ pc = "ready"
    /\ norm2.count < MaxNormalize
    /\ \E matrix \in {IF norm2.count = 0 THEN R ELSE norm2.matrix} :
            norm2' = [count |-> norm2.count + 1, matrix |-> _normalize(matrix),
                      prev |-> matrix]
    /\ UNCHANGED <<response, Rref, Rown, d, lam, pc, built, last, calls, memo, seeded>>

----------------------------------------------------------------------------
(* Callers' inputs *)

Rat(n, m) == [num |-> n, den |-> m]

Identity(n) == Matrix([i \in 1..n |-> [j \in 1..n |-> IF i = j THEN 1 ELSE 0]], 1)

Input(resp, meas, lm) == [response |-> resp, meas |-> meas, lam |-> lm]

\* The end-to-end scenario of the specification: R = I (3 x 3), d = [10, 0, 0], lam = 0.
EndToEnd == Input(Identity(3), <<10, 0, 0>>, Rat(0, 1))

\* lam as the studies pass it (0.05), none, and an invalid negative one.
Lams == {Rat(0, 1), Rat(1, 20), Rat(-1, 20)}

\* Square inputs of matching shapes.
SquareInputs ==
    {Input(Identity(1), <<2>>, l) : l \in Lams}
    \cup {Input(Matrix(<<<<2>>>>, 1), <<3>>, Rat(1, 20)),
          Input(Identity(1), <<5>>, Rat(0, 1)),
          Input(Identity(1), <<1>>, Rat(0, 1)),
          Input(Identity(1), <<0>>, Rat(0, 1)),
          Input(Identity(2), <<2, 0>>, Rat(0, 1)),
          Input(Identity(2), <<1, 2>>, Rat(1, 20)),
          Input(Identity(2), <<3, 2>>, Rat(0, 1)),
          Input(Matrix(<<<<1, 1>>, <<0, 2>>>>, 1), <<1, 1>>, Rat(0, 1)),
          Input(Matrix(<<<<1, 1>>, <<0, 0>>>>, 1), <<2, 1>>, Rat(0, 1)),
          Input(Matrix(<<<<1, 1>>, <<2, 0>>>>, 2), <<1, 2>>, Rat(1, 20)),
          EndToEnd}

\* m x n responses with m # n, rows matching the measured vector.
RectangularInputs ==
    {Input(Matrix(<<<<1, 1>>>>, 1), <<2>>, Rat(1, 20)),
     Input(Matrix(<<<<1, 3>>>>, 4), <<3>>, Rat(0, 1)),
     Input(Matrix(<<<<1>>, <<1>>>>, 1), <<1, 1>>, Rat(0, 1)),
     Input(Matrix(<<<<1, 1, 0>>, <<0, 1, 1>>>>, 2), <<1, 1>>, Rat(0, 1))}

\* The response's row count differs from the measured vector's length.
MismatchedInputs ==
    {Input(Identity(2), <<2>>, Rat(0, 1)),
     Input(Identity(1), <<1, 1>>, Rat(0, 1)),
     Input(Matrix(<<<<1, 1>>, <<1, 3>>>>, 1), <<3>>, Rat(0, 1))}

Inputs == SquareInputs \cup RectangularInputs \cup MismatchedInputs

\* Values the caller writes into its array afterwards.
WriteValues == {0, 2}

----------------------------------------------------------------------------
(* The object's life: construction, then solve calls in any order, while    *)
(* the caller goes on using its own array.                                  *)

Next ==
    \/ \E inp \in Inputs : __init__(inp)
    \/ \E num_reads \in NumReads : solve_simulated_annealing(num_reads, NoSeed)
    \/ solve_hybrid_sampler
    \/ \E v \in WriteValues : CallerWrites(v)
    \/ CallerResumes

Spec == Init /\ [][Next]_vars

----------------------------------------------------------------------------
(* Seeded annealing: the same object solved repeatedly, with and without a  *)
(* seed.                                                                    *)

SeedInputs ==
    {Input(Identity(1), <<2>>, Rat(0, 1)),
     Input(Matrix(<<<<2>>>>, 1), <<3>>, Rat(1, 20)),
     Input(Identity(1), <<3>>, Rat(-1, 20)),
     Input(Matrix(<<<<1, 1>>>>, 1), <<2>>, Rat(1, 20))}

NextSeed ==
    \/ \E inp \in SeedInputs : __init__(inp)
    \/ \E num_reads \in NumReads, seed \in Seeds \cup {NoSeed} :
            solve_simulated_annealing(num_reads, seed)
    \/ CallerResumes

SpecSeed == Init /\ [][NextSeed]_vars

----------------------------------------------------------------------------
(* The normalizer on its own: construction from count matrices, from        *)
(* probability matrices and from matrices whose row sums are within         *)
(* allclose's tolerance of 1, then _normalize applied again.                *)

MaxEntry == 3       \* largest count in a response bin

\* Row sums at, just inside and just outside the tolerance of 1.
NearOne ==
    {Matrix(<<<<a, 0>>, <<50000, b>>>>, 100000) :
        a \in {99998, 99999, 100000, 100001, 100002},
        b \in {49999, 50000, 50001, 50002}}

NormMatrices ==
    {Matrix(<<<<a, b>>, <<c, e>>>>, den) :
        a \in 0..MaxEntry, b \in 0..MaxEntry, c \in 0..MaxEntry, e \in 0..MaxEntry,
        den \in {1, 2}}
    \cup {Matrix(<<<<a, b, c>>>>, 1) : a \in 0..MaxEntry, b \in 0..MaxEntry, c \in 0..MaxEntry}
    \cup NearOne

NormInputs == {Input(m, <<2>>, Rat(0, 1)) : m \in NormMatrices}

NextNorm ==
    \/ \E inp \in NormInputs : __init__(inp)
    \/ Renormalize

SpecNorm == Init /\ [][NextNorm]_vars

----------------------------------------------------------------------------
(* The encoder over a range of totals: one-bin and two-bin histograms of    *)
(* every total up to MaxCount, solved by annealing.                         *)

MaxCount == 16      \* largest total of a measured vector

EncInputs ==
    {Input(Identity(1), <<s>>, Rat(0, 1)) : s \in 0..MaxCount}
    \cup {Input(Identity(2), <<s, 1>>, Rat(0, 1)) : s \in 0..3}

NextEnc ==
    \/ \E inp \in EncInputs : __init__(inp)
    \/ \E num_reads \in NumReads : solve_simulated_annealing(num_reads, NoSeed)
    \/ CallerResumes

SpecEnc == Init /\ [][NextEnc]_vars

----------------------------------------------------------------------------
(* Properties *)

\* The last call entered this step of the solve.
InTrace(step) == \E k \in DOMAIN last.trace : last.trace[k] = step

\* C1: every vector a solve call returns has one component per truth bin,
\* that is, per column of the response held by the core.
C1_LengthIsTruthBins ==
    last.kind = "return" => Len(last.value) = NCols(R)

\* C2: a solve on an object whose response has a row count other than the
\* measured vector's length fails before variable encoding is entered.
C2_MismatchFailsBeforeEncoding ==
    (last.op # None /\ NRows(R) # Len(d)) => ~InTrace("_define_variables")

\* C3: an invalid configuration is rejected at the call boundary: no object is
\* built with lam < 0, and a solve_simulated_annealing call with num_reads <= 0
\* raises before the Hamiltonian is built or the sampler invoked.
C3_InvalidConfigRejected ==
    /\ pc = "ready" => lam.num >= 0
    /\ (last.op = "SA" /\ last.num_reads <= 0) =>
            /\ last.kind = "raise"
            /\ ~InTrace("_define_hamiltonian")
            /\ ~InTrace("sample")

\* C4: a solve whose sampler failed or returned no sample raises and returns
\* no vector, and the failure of an empty sample set is of another class than
\* any failure of the sampler.
C4_FailuresDistinguishable ==
    /\ last.cause \in {"sampler", "empty"} => (last.kind = "raise" /\ last.value = <<>>)
    /\ last.cause = "sampler" => last.err # Decode(<<>>, <<>>).err

\* C5: after construction every row of R whose input sum was not zero sums to 1
\* (within allclose's tolerance when the input was accepted as it stood,
\* exactly when it was normalized), every row whose input sum was zero is all
\* zero, and no row holds the result of a division by zero.
C5_RowsSumToOne ==
    pc = "ready" =>
        \A i \in DOMAIN R :
            /\ R[i].den > 0
            /\ IF RowSum(built.input[i]) = 0
               THEN \A j \in DOMAIN R[i].num : R[i].num[j] = 0
               ELSE /\ AllcloseOne(R[i])
                    /\ Rref = "own" => RowSum(R[i]) = R[i].den

\* C5: a matrix with an all-zero row and a row of another sum than 1 was normalized.
C5_Witness ==
    /\ pc = "ready" /\ Rref = "own"
    /\ \E i \in DOMAIN R : RowSum(built.input[i]) = 0
    /\ \E i \in DOMAIN R : RowSum(built.input[i]) > built.input[i].den

\* C6: the core's R is a private copy: whatever the caller does to its own
\* array afterwards, R stays what it was when construction returned.
C6_PrivateCopy ==
    pc = "ready" => R = built.R

\* C7: after any solve calls d, lam and the array R references are those of
\* construction, R's contents too unless the caller itself wrote into an
\* array R shares, and a returned vector is what the state as constructed
\* gives for the samples drawn, whatever calls came before.
C7_SolveLeavesState ==
    (pc = "ready" /\ calls # <<>>) =>
        /\ d = built.d
        /\ lam = built.lam
        /\ Rref = built.Rref
        /\ (Rref = "own" \/ response = built.input) => R = built.R
        /\ (last.kind = "return" /\ response = built.input) =>
                Bind(_define_pyqubo_model(built.R, built.d, built.lam),
                     LAMBDA model : last.value = Decode(model, last.samples).value)

\* C7: a second solve call, of the other kind, returned a vector.
C7_Witness ==
    /\ calls = <<"SA", "HYB">>
    /\ last.op = "HYB"
    /\ last.kind = "return"

\* C8: a seeded solve_simulated_annealing call that returns, on the same R, d
\* and lam and with the same num_reads and seed as an earlier one that
\* returned, returns the same vector.
C8_SeededDeterminism ==
    (/\ last.op = "SA" /\ last.seed # NoSeed /\ last.kind = "return"
     /\ seeded.set
     /\ seeded.key = DrawKey(last.num_reads, last.seed))
        => last.value = seeded.value

\* C8: the second of two seeded calls with one key returned.
C8_Witness ==
    /\ Len(calls) = 2 /\ seeded.set /\ seeded.at = 1
    /\ last.op = "SA" /\ last.seed # NoSeed /\ last.kind = "return"
    /\ seeded.key = DrawKey(last.num_reads, last.seed)
    /\ Len(last.samples) = 2

\* The integers one encoded variable takes over all assignments of its bits.
VarRange(v) == {DecodeVar(v, bits) : bits \in [1..Len(v.weights) -> {0, 1}]}

AllValues(x) ==
    {xs \in [DOMAIN x -> UNION {VarRange(x[i]) : i \in DOMAIN x}] :
        \A i \in DOMAIN x : xs[i] \in VarRange(x[i])}

\* The assignments of least energy over the encoded ranges.
GroundStates(model) ==
    Bind({Energy(model.h, xs) : xs \in AllValues(model.x)}, LAMBDA energies :
    Bind(CHOOSE e \in energies : \A f \in energies : e <= f, LAMBDA least :
        {xs \in AllValues(model.x) : Energy(model.h, xs) = least}))

\* The object was built from the end-to-end scenario and the caller's array is untouched.
IsEndToEnd ==
    /\ pc = "ready"
    /\ built.input = EndToEnd.response
    /\ built.d = EndToEnd.meas
    /\ built.lam = EndToEnd.lam
    /\ response = built.input

\* The last call returned and one of its samples decodes to xs.
DrewSample(xs) ==
    /\ last.kind = "return"
    /\ Bind(_define_pyqubo_model(R, d, lam), LAMBDA model :
            \E k \in DOMAIN last.samples :
                DecodeSample(model, last.samples[k]).subh = xs)

\* C9 as stated: in the end-to-end scenario the least-energy assignment over
\* the encoded ranges is [10, 0, 0], and a solve whose sample set holds it
\* returns [10, 0, 0].
C9_RecoversMeasured ==
    IsEndToEnd =>
        Bind(GroundStates(_define_pyqubo_model(R, d, lam)), LAMBDA ground :
            /\ ground = {<<10, 0, 0>>}
            /\ (last.kind = "return" /\ \E xs \in ground : DrewSample(xs))
                    => last.value = <<10, 0, 0>>)

\* C9 amended: the encoded range is [0, 7], the only least-energy assignment
\* over it is [7, 0, 0], and a solve whose sample set holds it returns [7, 0, 0].
C9_RecoversUpToRange ==
    IsEndToEnd =>
        /\ last.op = None =>
                GroundStates(_define_pyqubo_model(R, d, lam)) = {<<7, 0, 0>>}
        /\ DrewSample(<<7, 0, 0>>) => last.value = <<7, 0, 0>>

\* C9: a solve in the scenario drew the least-energy assignment after another sample.
C9_Witness ==
    /\ IsEndToEnd
    /\ Len(last.samples) = 2
    /\ DrewSample(<<7, 0, 0>>)
    /\ Bind(_define_pyqubo_model(R, d, lam), LAMBDA model :
            DecodeSample(model, last.samples[1]).subh # <<7, 0, 0>>)

\* C10: construction from a matrix whose rows sum to 1 (as allclose has it)
\* leaves every entry as it was; _normalize applied to a result of _normalize
\* returns that result, and applied to an exactly row-stochastic matrix
\* returns it.
C10_NormalizeIdempotent ==
    pc = "ready" =>
        /\ (\A i \in DOMAIN built.input : AllcloseOne(built.input[i])) => R = built.input
        /\ norm2.count >= 2 => norm2.matrix = norm2.prev
        /\ (norm2.count >= 1 /\ Rref = "own") => norm2.matrix = R
        /\ (norm2.count >= 1 /\ RowStochastic(built.input)) =>
                norm2.matrix = built.input

\* C10: _normalize ran twice more on a normalized matrix that has an all-zero row.
C10_Witness ==
    /\ pc = "ready" /\ Rref = "own" /\ norm2.count = 2
    /\ \E i \in DOMAIN R : RowSum(built.input[i]) = 0
    /\ \E i \in DOMAIN R : RowSum(built.input[i]) > built.input[i].den

\* Sum of the squares of a vector's entries.
SumSq(s) == SumSeq([k \in DOMAIN s |-> s[k] * s[k]])

\* ||Rx - d||^2 - ||d||^2 + lam ||Gx||^2 (times the Hamiltonian's scale) for a
\* vector xs of one entry per column of M, G the n x n second-difference matrix.
LeastSquaresForm(M, dd, lm, xs) ==
    LET L   == RowDenProduct(M)
        n   == NCols(M)
        G   == _get_laplacian(n)
        res == [k \in DOMAIN M |->
                    SumSeq([i \in 1..n |-> Scaled(M, k, i) * xs[i]]) - L * dd[k]]
        gx  == [k \in 1..n |-> SumSeq([i \in 1..n |-> G[k][i] * xs[i]])]
    IN  lm.den * (SumSq(res) - L * L * SumSq(dd)) + lm.num * L * L * SumSq(gx)

\* C11: whenever a solve built its Hamiltonian, there is one variable per
\* column of R and, at every integer vector xs over the variables' ranges, the
\* Hamiltonian a^T x + x^T B x is ||Rx - d||^2 - ||d||^2 + lam ||Gx||^2 with
\* G the n x n second-difference matrix.
C11_LeastSquaresForm ==
    (last.op # None /\ InTrace("compile")) =>
        \A model \in {_define_pyqubo_model(R, d, lam)} :
            /\ Len(model.x) = NCols(R)
            /\ \A xs \in AllValues(model.x) :
                    Energy(model.h, xs) = LeastSquaresForm(R, d, lam, xs)

\* C11, the square case: for an m x m response the Hamiltonian built is the
\* least-squares form at every integer vector over the variables' ranges.
C11_SquareLeastSquares ==
    (last.op # None /\ InTrace("compile") /\ NRows(R) = NCols(R)) =>
        \A model \in {_define_pyqubo_model(R, d, lam)} :
            \A xs \in AllValues(model.x) :
                Energy(model.h, xs) = LeastSquaresForm(R, d, lam, xs)

\* C12: a returned vector is decoded from a sample of the set whose energy is
\* no more than any other sample's and which comes before every other sample
\* of that energy in the set's order; its component i is the weighted sum of
\* the bits of variable i in that sample, in the order of the variables.
C12_FirstMinimumSelected ==
    last.kind = "return" =>
        \A model \in {_define_pyqubo_model(R, d, lam)} :
        \A decoded \in {decode_sampleset(model, last.samples)} :
            /\ last.samples # <<>>
            /\ \E k \in DOMAIN decoded :
                /\ \A l \in DOMAIN decoded : decoded[k].energy <= decoded[l].energy
                /\ \A l \in 1..(k - 1) : decoded[l].energy # decoded[k].energy
                /\ DOMAIN last.value = DOMAIN model.x
                /\ \A i \in DOMAIN last.value :
                        last.value[i] = DecodeVar(model.x[i], last.samples[k][i])

\* C12: a solve returned from two samples of one energy that decode to
\* different vectors.
C12_Witness ==
    /\ last.kind = "return"
    /\ Len(last.samples) = 2
    /\ \E model \in {_define_pyqubo_model(R, d, lam)} :
       \E decoded \in {decode_sampleset(model, last.samples)} :
            /\ decoded[1].energy = decoded[2].energy
            /\ decoded[1].subh # decoded[2].subh
            /\ last.value = decoded[1].subh

\* C13: whenever the encoder of a solve made its variables for an m x n
\* response and a measured vector of length m, there is one variable per truth
\* bin, that is, per column of R, each ranges over [0, n_max] with
\* n_max = 2^floor(log2(sum(d))) - 1, and every component of a returned
\* vector is an integer of that range.
C13_OneVariablePerTruthBin ==
    (last.op # None /\ InTrace("_define_hamiltonian") /\ NRows(R) = Len(d)) =>
        \A enc \in {_define_variables(d)} :
            /\ Len(enc.x) = NCols(R)
            /\ \A i \in DOMAIN enc.x :
                    /\ enc.x[i].lower = 0
                    /\ enc.x[i].upper = Pow2(FloorLog2(SumSeq(d))) - 1
            /\ last.kind = "return" =>
                    \A i \in DOMAIN last.value :
                        last.value[i] \in 0..(Pow2(FloorLog2(SumSeq(d))) - 1)

\* C13, as the code has it: one variable per entry of the measured vector,
\* all over [0, n_max], and every component of a returned vector within it.
C13_OneVariablePerMeasuredBin ==
    (last.op # None /\ InTrace("_define_hamiltonian")) =>
        \A enc \in {_define_variables(d)} :
            /\ Len(enc.x) = Len(d)
            /\ \A i \in DOMAIN enc.x :
                    /\ enc.x[i].lower = 0
                    /\ enc.x[i].upper = Pow2(FloorLog2(SumSeq(d))) - 1
            /\ last.kind = "return" =>
                    \A i \in DOMAIN last.value :
                        last.value[i] \in 0..(Pow2(FloorLog2(SumSeq(d))) - 1)

\* The binary digits of v, least significant first, on n places.
BinaryDigits(v, n) == [k \in 1..n |-> (v \div Pow2(k - 1)) % 2]

\* C14: for every variable the encoder of a solve made, with its bound n_max,
\* the binary digits of every v in [0, n_max] decode (weighted sum) to v, and
\* every assignment of the variable's bits decodes to an integer in [0, n_max].
C14_EncodingRoundTrip ==
    (last.op # None /\ InTrace("_define_hamiltonian")) =>
        \A enc \in {_define_variables(d)} :
        \A i \in DOMAIN enc.x :
            /\ enc.x[i].upper = EncoderBound(d)
            /\ \A v \in 0..enc.x[i].upper :
                    DecodeVar(enc.x[i], BinaryDigits(v, Len(enc.x[i].weights))) = v
            /\ \A bits \in [1..Len(enc.x[i].weights) -> {0, 1}] :
                    DecodeVar(enc.x[i], bits) \in 0..enc.x[i].upper
            /\ \A k \in DOMAIN last.samples :
                    last.samples[k][i] =
                        BinaryDigits(DecodeVar(enc.x[i], last.samples[k][i]),
                                     Len(enc.x[i].weights))

\* C14: a solve over the range [0, 15] returned 10, decoded from the digits 0101.
C14_Witness ==
    /\ last.kind = "return"
    /\ EncoderBound(d) = 15
    /\ last.value = <<10>>
    /\ \E k \in DOMAIN last.samples : last.samples[k][1] = BinaryDigits(10, 4)

====
